---- MODULE Spec2Model ----
(***************************************************************************)
(* Model of cula.py: the import of the module (loading libcula.so and      *)
(* registering the exit hook), culaCheckStatus, and svd with its lazy      *)
(* initialize-and-retry path.  The native library is the environment: each *)
(* native call returns a status drawn from Statuses.                       *)
(***************************************************************************)
EXTENDS Integers, Sequences, FiniteSets, TLC

\* ---------------------------------------------------------------- bounds
MaxDim == 2          \* each dimension of an input array is in 0..MaxDim
MaxRank == 3         \* an input array has 0..MaxRank dimensions
MaxStatus == 11      \* largest status the native library returns in the model
MaxNegStatus == 2    \* the most negative status is -MaxNegStatus

Statuses == (0 - MaxNegStatus)..MaxStatus
Dims == 0..MaxDim
Dtypes == {"float32", "float64", "complex64", "complex128"}

VARIABLES
    pc,             \* position of the process
    libcula,        \* module global _libcula: "unbound" or "loaded"
    stdout,         \* lines printed
    importExc,      \* exception that ended the import, [exc, msg, line]
    atexit,         \* handlers registered with atexit, in order
    shutdownCalls,  \* number of native culaShutdown invocations
    loc,            \* locals of the running svd call
    callLog,        \* native calls made by the running svd call, in order
    outcome,        \* "none", "returned" or "raised" for the svd call
    raised,         \* exception raised by svd, [exc, msg, line]
    retval,         \* shapes of the arrays svd returned
    chkArg,         \* argument of the last direct culaCheckStatus call
    chkExc          \* what that call raised ("none" when it returned)

vars == <<pc, libcula, stdout, importExc, atexit, shutdownCalls, loc,
          callLog, outcome, raised, retval, chkArg, chkExc>>

\* ------------------------------------------------------------- helpers
NoExc == [exc |-> "none", msg |-> "", line |-> 0]

Raise(e, m, l) == [exc |-> e, msg |-> m, line |-> l]

Reverse(sq) == [i \in 1..Len(sq) |-> sq[Len(sq) + 1 - i]]

RECURSIVE Prod(_)
Prod(sq) == IF sq = <<>> THEN 1 ELSE Head(sq) * Prod(Tail(sq))

Min(x, y) == IF x < y THEN x ELSE y

Max(x, y) == IF x > y THEN x ELSE y

\* all shapes with at most r dimensions
RECURSIVE ShapesOfRank(_)
ShapesOfRank(r) ==
    IF r = 0 THEN {<<>>}
    ELSE {Append(sh, d) : sh \in ShapesOfRank(r - 1), d \in Dims}

Shapes == UNION {ShapesOfRank(r) : r \in 0..MaxRank}

Arrays == [shape : Shapes, dtype : Dtypes]

\* ------------------------------------------------ status/error translator
\* the table of lines 76-88
culaExceptions ==
    (0 - 1) :> "culaNotFoundError" @@
    1 :> "culaNotInitializedError" @@
    2 :> "culaNoHardwareError" @@
    3 :> "culaInsufficientRuntimeError" @@
    4 :> "culaInsufficientComputeCapabilityError" @@
    5 :> "culaInsufficientMemoryError" @@
    6 :> "culaFeatureNotImplementedError" @@
    7 :> "culaArgumentError" @@
    8 :> "culaDataError" @@
    9 :> "culaBlasError" @@
    10 :> "culaRuntimeError"

\* names bound at module level once the import has succeeded; the table is
\* bound as culaExceptions, nothing is bound as culaErrors
ModuleGlobals ==
    {"_libcula", "_culaGetStatusString", "culaGetStatusString", "culaError",
     "culaExceptions", "culaCheckStatus", "culaGetErrorInfo",
     "culaGetLastStatus", "culaInitialize", "culaShutdown", "svd"}

culaCheckStatusSilent(status) == NoExc

\* culaCheckStatus: `if status != 0: raise culaErrors[status]`; evaluating
\* the name culaErrors is what decides the exception
culaCheckStatus(status) ==
    IF status # 0
    THEN IF "culaErrors" \in ModuleGlobals
         THEN IF status \in DOMAIN culaExceptions
              THEN Raise(culaExceptions[status], "", 95)
              ELSE Raise("KeyError", "", 95)
         ELSE Raise("NameError", "global name 'culaErrors' is not defined", 95)
    ELSE NoExc

\* ------------------------------------------------------ numpy.linalg copies
\* _makearray: np.asarray keeps shape and dtype
makearray(a) == a

\* _assertRank2
assertRank2(a) ==
    IF Len(a.shape) # 2
    THEN Raise("LinAlgError", "Array must be two-dimensional", 129)
    ELSE NoExc

assertNonEmptySilent(a) == NoExc

\* _assertNonEmpty: np.size(a) is the product of the dimensions
assertNonEmpty(a) ==
    IF Prod(a.shape) = 0
    THEN Raise("LinAlgError", "Arrays cannot be empty", 135)
    ELSE NoExc

transposeKeep(shape) == shape

\* ndarray.transpose() of an array of the given shape
transpose(shape) == Reverse(shape)

\* _fastCopyAndTranspose: cast to type, copy and transpose
fastCopyAndTranspose(type, a) == [shape |-> transpose(a.shape), dtype |-> type]

iscomplexobj(a) == a.dtype \in {"complex64", "complex128"}

\* `(m, n) = a.shape`: unpacking needs exactly two items
UnpackShape(a) ==
    IF Len(a.shape) < 2
    THEN Raise("ValueError", "need more than " \o ToString(Len(a.shape))
                             \o " values to unpack", 213)
    ELSE IF Len(a.shape) > 2
    THEN Raise("ValueError", "too many values to unpack", 213)
    ELSE NoExc

\* ------------------------------------------------------------------ svd
NoShape == <<0 - 1>>

NoLocals ==
    [a |-> [shape |-> NoShape, dtype |-> "none"], full_matrices |-> FALSE,
     compute_uv |-> FALSE, m |-> 0, n |-> 0, t |-> "none",
     cula_func |-> "none", at |-> NoShape, lda |-> 0, s |-> NoShape,
     jobu |-> "-", jobvt |-> "-", ldu |-> 0, u |-> NoShape, ldvt |-> 0,
     vt |-> NoShape, status |-> 0]

\* lines 247-257
Jobu(full_matrices, compute_uv) ==
    IF compute_uv THEN (IF full_matrices THEN "A" ELSE "S") ELSE "N"

Jobvt(full_matrices, compute_uv) ==
    IF compute_uv THEN (IF full_matrices THEN "A" ELSE "S") ELSE "N"

\* lines 259-267: LDU and the buffer holding the transpose of U
Ldu(jobu, m) == IF jobu \in {"A", "S"} THEN m ELSE 1

UShape(jobu, m, n) ==
    IF jobu = "A" THEN <<m, m>>
    ELSE IF jobu = "S" THEN <<Min(m, n), m>>
    ELSE <<1, 1>>

\* lines 269-278: LDVT and the buffer holding the transpose of VT
Ldvt(jobvt, m, n) ==
    IF jobvt = "A" THEN n
    ELSE IF jobvt = "S" THEN Min(m, n)
    ELSE 1

VtShape(jobvt, m, n) ==
    IF jobvt = "A" THEN <<n, n>>
    ELSE IF jobvt = "S" THEN <<n, Min(m, n)>>
    ELSE <<1, 1>>

\* line 245
SShape(m, n) == <<Min(m, n)>>

\* handlers registered at import, line 118
AtexitNothing == <<>>

AtexitHandlers == <<"culaShutdown">>

\* ------------------------------------------------------------------ Init
Init ==
    /\ pc = "start"
    /\ libcula = "unbound"
    /\ stdout = <<>>
    /\ importExc = NoExc
    /\ atexit = <<>>
    /\ shutdownCalls = 0
    /\ loc = NoLocals
    /\ callLog = <<>>
    /\ outcome = "none"
    /\ raised = NoExc
    /\ retval = <<>>
    /\ chkArg = 0
    /\ chkExc = NoExc

\* --------------------------------------------------------------- actions
\* import of the module, lines 8-118.  libFound: whether the loader finds
\* libcula.so.  When it does not, OSError is caught and a line is printed;
\* the next statement reads the global _libcula.
Import ==
    /\ pc = "start"
    /\ \E libFound \in BOOLEAN :
        IF libFound
        THEN /\ libcula' = "loaded"
             /\ stdout' = stdout
             /\ importExc' = NoExc
             /\ atexit' = atexit \o AtexitHandlers
             /\ pc' = "idle"
        ELSE /\ libcula' = "unbound"
             /\ stdout' = Append(stdout, "libcula.so not found")
             /\ importExc' = Raise("NameError", "name '_libcula' is not defined", 20)
             /\ atexit' = atexit
             /\ pc' = "import_failed"
    /\ UNCHANGED <<shutdownCalls, loc, callLog, outcome, raised, retval,
                   chkArg, chkExc>>

\* a direct call of culaCheckStatus by the user of the module
CheckStatusCall ==
    /\ pc = "idle"
    /\ \E status \in Statuses :
        /\ chkArg' = status
        /\ chkExc' = culaCheckStatus(status)
    /\ UNCHANGED <<pc, libcula, stdout, importExc, atexit, shutdownCalls,
                   loc, callLog, outcome, raised, retval>>

\* svd, lines 210-278: argument handling and buffer allocation
SvdBegin ==
    /\ pc = "idle"
    /\ \E arr \in Arrays, full_matrices \in BOOLEAN, compute_uv \in BOOLEAN :
        LET a0 == makearray(arr)
            up == UnpackShape(a0)
            base == [NoLocals EXCEPT !.a = a0,
                                     !.full_matrices = full_matrices,
                                     !.compute_uv = compute_uv]
        IN
        IF up.exc # "none"
        THEN /\ loc' = base
             /\ outcome' = "raised"
             /\ raised' = up
             /\ pc' = "done"
        ELSE
        LET m == a0.shape[1]
            n == a0.shape[2]
            t == IF iscomplexobj(a0) THEN "complex64" ELSE "float32"
            f == IF iscomplexobj(a0) THEN "culaCgesvd" ELSE "culaSgesvd"
            at == fastCopyAndTranspose(t, a0)
            r2 == assertRank2(at)
            ne == assertNonEmpty(at)
            chk == [base EXCEPT !.m = m, !.n = n, !.t = t, !.cula_func = f,
                                !.at = at.shape]
            jobu == Jobu(full_matrices, compute_uv)
            jobvt == Jobvt(full_matrices, compute_uv)
        IN
        IF r2.exc # "none"
        THEN /\ loc' = chk
             /\ outcome' = "raised"
             /\ raised' = r2
             /\ pc' = "done"
        ELSE IF ne.exc # "none"
        THEN /\ loc' = chk
             /\ outcome' = "raised"
             /\ raised' = ne
             /\ pc' = "done"
        ELSE /\ loc' = [chk EXCEPT !.lda = Max(1, m),
                                   !.s = SShape(m, n),
                                   !.jobu = jobu,
                                   !.jobvt = jobvt,
                                   !.ldu = Ldu(jobu, m),
                                   !.u = UShape(jobu, m, n),
                                   !.ldvt = Ldvt(jobvt, m, n),
                                   !.vt = VtShape(jobvt, m, n)]
             /\ outcome' = "none"
             /\ raised' = NoExc
             /\ pc' = "native1"
    /\ callLog' = <<>>
    /\ retval' = <<>>
    /\ UNCHANGED <<libcula, stdout, importExc, atexit, shutdownCalls,
                   chkArg, chkExc>>

\* record of one native call
NativeCall(fn, st) == [fn |-> fn, st |-> st]

\* lines 280-283: the first invocation of the native routine
SvdNative1 ==
    /\ pc = "native1"
    /\ \E st \in Statuses :
        /\ callLog' = Append(callLog, NativeCall(loc.cula_func, st))
        /\ loc' = [loc EXCEPT !.status = st]
        /\ pc' = IF st # 0 THEN "init" ELSE "finish"
    /\ UNCHANGED <<libcula, stdout, importExc, atexit, shutdownCalls,
                   outcome, raised, retval, chkArg, chkExc>>

\* lines 284-285: culaInitialize and the check of its status
SvdInitialize ==
    /\ pc = "init"
    /\ \E st \in Statuses :
        LET e == culaCheckStatus(st) IN
        /\ callLog' = Append(callLog, NativeCall("culaInitialize", st))
        /\ loc' = [loc EXCEPT !.status = st]
        /\ IF e.exc # "none"
           THEN /\ outcome' = "raised"
                /\ raised' = e
                /\ pc' = "done"
           ELSE /\ outcome' = outcome
                /\ raised' = raised
                /\ pc' = "native2"
    /\ UNCHANGED <<libcula, stdout, importExc, atexit, shutdownCalls,
                   retval, chkArg, chkExc>>

\* lines 286-288: the second invocation of the native routine
SvdNative2 ==
    /\ pc = "native2"
    /\ \E st \in Statuses :
        /\ callLog' = Append(callLog, NativeCall(loc.cula_func, st))
        /\ loc' = [loc EXCEPT !.status = st]
        /\ pc' = "finish"
    /\ UNCHANGED <<libcula, stdout, importExc, atexit, shutdownCalls,
                   outcome, raised, retval, chkArg, chkExc>>

\* lines 290-296: the convergence test and the return value
SvdFinish ==
    /\ pc = "finish"
    /\ IF loc.status > 0
       THEN /\ outcome' = "raised"
            /\ raised' = Raise("LinAlgError", "SVD did not converge", 291)
            /\ retval' = retval
       ELSE /\ outcome' = "returned"
            /\ raised' = raised
            /\ retval' = IF loc.compute_uv
                         THEN <<transpose(loc.u), loc.s, transpose(loc.vt)>>
                         ELSE <<loc.s>>
    /\ pc' = "done"
    /\ UNCHANGED <<libcula, stdout, importExc, atexit, shutdownCalls, loc,
                   callLog, chkArg, chkExc>>

\* control is back in the caller of svd; the frame of svd is gone
SvdResume ==
    /\ pc = "done"
    /\ pc' = "idle"
    /\ loc' = NoLocals
    /\ callLog' = <<>>
    /\ outcome' = "none"
    /\ raised' = NoExc
    /\ retval' = <<>>
    /\ UNCHANGED <<libcula, stdout, importExc, atexit, shutdownCalls,
                   chkArg, chkExc>>

\* number of culaShutdown handlers among the registered ones
RECURSIVE CountShutdown(_)
CountShutdown(hs) ==
    IF hs = <<>> THEN 0
    ELSE (IF Head(hs) = "culaShutdown" THEN 1 ELSE 0) + CountShutdown(Tail(hs))

\* the interpreter terminates (after the import failed, between calls, or
\* with the exception of an svd call uncaught) and runs the atexit handlers
Exit ==
    /\ pc \in {"import_failed", "idle", "done"}
    /\ shutdownCalls' = shutdownCalls + CountShutdown(atexit)
    /\ pc' = "exited"
    /\ UNCHANGED <<libcula, stdout, importExc, atexit, loc, callLog, outcome,
                   raised, retval, chkArg, chkExc>>

Next ==
    \/ Import
    \/ CheckStatusCall
    \/ SvdBegin
    \/ SvdNative1
    \/ SvdInitialize
    \/ SvdNative2
    \/ SvdFinish
    \/ SvdResume
    \/ Exit

Spec == Init /\ [][Next]_vars

\* ------------------------------------------------------------ properties
IsSvdFn(c) == c.fn \in {"culaSgesvd", "culaCgesvd"}

IsInitFn(c) == c.fn = "culaInitialize"

\* invocations of the native SVD routine made by the running svd call
SvdCalls == SelectSeq(callLog, IsSvdFn)

\* invocations of culaInitialize made by the running svd call
InitCalls == SelectSeq(callLog, IsInitFn)

LastSvdStatus == SvdCalls[Len(SvdCalls)].st

InSvd == pc \in {"native1", "init", "native2", "finish", "done"}

InputEmpty2D ==
    /\ loc.a.dtype # "none"
    /\ Len(loc.a.shape) = 2
    /\ (loc.a.shape[1] = 0 \/ loc.a.shape[2] = 0)

\* C1: svd invokes the native routine at most twice; culaInitialize and the
\* second invocation happen only when the first status is the "not
\* initialized" code 1; any other nonzero first status makes svd fail at
\* once, with one native call and no culaInitialize.
C1_RetryOnlyWhenNotInitialized ==
    /\ Len(SvdCalls) <= 2
    /\ (Len(InitCalls) > 0 \/ Len(SvdCalls) = 2) => callLog[1].st = 1
    /\ (pc = "done" /\ callLog # <<>> /\ callLog[1].st \notin {0, 1})
          => (outcome = "raised" /\ Len(callLog) = 1)

\* C2: svd returns a value only if the last invocation of the native SVD
\* routine returned status 0.
C2_ReturnOnlyOnSuccess ==
    outcome = "returned" => (SvdCalls # <<>> /\ LastSvdStatus = 0)

\* C3: culaCheckStatus returns for status 0, raises the class the table
\* culaExceptions maps the status to when the status is a key of the table,
\* and raises some error for every other nonzero status.
C3_CheckStatusTyped ==
    /\ chkArg = 0 => chkExc.exc = "none"
    /\ chkArg \in DOMAIN culaExceptions => chkExc.exc = culaExceptions[chkArg]
    /\ chkArg # 0 => chkExc.exc # "none"

\* C4: an input whose number of dimensions is not 2 makes svd fail with the
\* LinAlgError of _assertRank2, before any native call.
C4_RankError ==
    (pc = "done" /\ Len(loc.a.shape) # 2)
        => /\ outcome = "raised"
           /\ raised.exc = "LinAlgError"
           /\ raised.line = 129
           /\ callLog = <<>>

\* C5: an empty two-dimensional input makes svd fail with LinAlgError
\* "Arrays cannot be empty"; no native call is made and no output buffer is
\* allocated for the native library.
C5_EmptyInputRejected ==
    InputEmpty2D
        => /\ pc \in {"done", "exited"}
           /\ outcome = "raised"
           /\ raised.exc = "LinAlgError"
           /\ raised.msg = "Arrays cannot be empty"
           /\ callLog = <<>>
           /\ loc.s = NoShape /\ loc.u = NoShape /\ loc.vt = NoShape

C5_Witness ==
    /\ pc = "done"
    /\ InputEmpty2D
    /\ loc.a.shape = <<0, 2>>
    /\ raised.msg = "Arrays cannot be empty"

\* C6: when an svd call ends on an invocation of the native SVD routine, a
\* positive status of that invocation makes svd raise LinAlgError "SVD did
\* not converge" and return nothing; and when svd raises "SVD did not
\* converge" that status is positive and is not one of the codes of the
\* status table (such as 1, "not initialized").
C6_NonConvergenceDistinct ==
    (pc = "done" /\ callLog # <<>> /\ IsSvdFn(callLog[Len(callLog)]))
        => /\ LastSvdStatus > 0
                => /\ outcome = "raised"
                   /\ raised.exc = "LinAlgError"
                   /\ raised.msg = "SVD did not converge"
                   /\ retval = <<>>
           /\ raised.msg = "SVD did not converge"
                => /\ LastSvdStatus > 0
                   /\ LastSvdStatus \notin DOMAIN culaExceptions

\* the shapes svd is documented to return for an (M, N) input
ExpectedShapes(M, N, full_matrices, compute_uv) ==
    LET K == Min(M, N) IN
    IF compute_uv
    THEN IF full_matrices
         THEN << <<M, M>>, <<K>>, <<N, N>> >>
         ELSE << <<M, K>>, <<K>>, <<K, N>> >>
    ELSE << <<K>> >>

\* C7: when the native call succeeds, svd returns U (M,M) and Vt (N,N) in
\* full mode, U (M,K) and Vt (K,N) in reduced mode, only the values vector
\* with compute_uv false, and the values vector has length K = min(M,N).
C7_OutputShapes ==
    (pc = "done" /\ outcome = "returned" /\ LastSvdStatus = 0)
        => /\ loc.a.shape[1] >= 1 /\ loc.a.shape[2] >= 1
           /\ retval = ExpectedShapes(loc.a.shape[1], loc.a.shape[2],
                                      loc.full_matrices, loc.compute_uv)

C7_Witness ==
    /\ pc = "done"
    /\ outcome = "returned"
    /\ LastSvdStatus = 0
    /\ loc.a.shape = <<2, 1>>
    /\ loc.compute_uv /\ ~loc.full_matrices
    /\ retval = << <<2, 1>>, <<1>>, <<1, 1>> >>

\* C8: once the module is imported, culaShutdown is not invoked before the
\* process exits (not by svd, not by the initialize/retry path) and is
\* invoked exactly once at exit.
C8_ShutdownOnceAtExit ==
    /\ pc # "exited" => shutdownCalls = 0
    /\ (pc = "exited" /\ libcula = "loaded") => shutdownCalls = 1

C8_Witness ==
    /\ pc = "exited"
    /\ shutdownCalls = 1
    /\ outcome = "raised"
    /\ Len(SvdCalls) = 2
    /\ Len(InitCalls) = 1

\* C9: when libcula.so cannot be loaded the import fails with
\* culaNotFoundError, raised at the load (lines 14-17).
C9_LibraryNotFound ==
    pc = "import_failed"
        => /\ importExc.exc = "culaNotFoundError"
           /\ importExc.line \in 14..17

\* C10: in an svd call culaInitialize is called at most once and only after
\* a native SVD invocation returned a nonzero status; the second native
\* invocation happens only right after culaInitialize returned 0; when
\* culaInitialize returns a nonzero status svd raises, makes no further
\* native call and returns nothing.
C10_LazyInitGuardsRetry ==
    /\ Len(InitCalls) <= 1
    /\ \A i \in 1..Len(callLog) :
          IsInitFn(callLog[i])
              => \E j \in 1..(i - 1) : IsSvdFn(callLog[j]) /\ callLog[j].st # 0
    /\ \A i \in 1..Len(callLog) :
          (IsSvdFn(callLog[i]) /\ \E j \in 1..(i - 1) : IsSvdFn(callLog[j]))
              => (IsInitFn(callLog[i - 1]) /\ callLog[i - 1].st = 0)
    /\ \A i \in 1..Len(callLog) :
          (IsInitFn(callLog[i]) /\ callLog[i].st # 0)
              => /\ Len(callLog) = i
                 /\ pc \in {"done", "exited"}
                 /\ outcome = "raised"
                 /\ retval = <<>>

C10_Witness ==
    /\ pc = "done"
    /\ Len(callLog) = 2
    /\ IsInitFn(callLog[2]) /\ callLog[2].st # 0
    /\ outcome = "raised"

====
